---- MODULE Spec2Model ----
(***************************************************************************)
(* Model of the profile verification service of id3-validator.             *)
(*                                                                         *)
(* Two entry points are modelled: ProfilesService.getProfile               *)
(* (src/src/profiles/profiles.service.ts) and the earlier                  *)
(* ProfilesService.verifyProfile (src/unnamed/part_005), which is the one  *)
(* src/src/profiles/profiles.controller.ts still calls.                    *)
(*                                                                         *)
(* Strings that the code only compares are TLA+ strings.  Strings that the *)
(* code transforms (the configuration value it splits, the username it     *)
(* substitutes into a link template) are sequences of one-character        *)
(* strings, so that split and replace are computed as the code does.       *)
(***************************************************************************)
EXTENDS Integers, Sequences, FiniteSets, TLC

(***************************************************************************)
(* Bounds of the model.                                                    *)
(***************************************************************************)
\* longest credential collection an endpoint returns to getProfile
MaxLen == 3
\* longest credential collection one endpoint returns to verifyProfile
MaxVariantLen == 1

(***************************************************************************)
(* Values.                                                                 *)
(***************************************************************************)
\* JavaScript's undefined where a text is expected (a missing claim field);
\* converted to a string it reads "undefined"
Undefined == <<"undefined">>

\* the placeholder of a link template, one token of the template
Placeholder == "CONTENTS_VALUE"

\* usernames: "a", "b" and "$$" (a replacement pattern of String.replace)
UserA == <<"a">>
UserB == <<"b">>
UserDollar == <<"$", "$">>

\* attester DIDs, as the configuration spells them
AttesterA == <<"A">>
AttesterB == <<"B">>
AttesterX == <<"X">>

\* schema identifiers (cTypeHash)
HashTwitter == "0xtwitter"
HashGithub == "0xgithub"
HashLinkedin == "0xlinkedin"
HashOther == "0xother"

\* the schemas registered on the chain the service is connected to; the
\* linkedin schema of the table is not registered there
ChainCTypes == {HashTwitter, HashGithub, HashOther}

\* the claim key of each schema
KeyOfHash(h) ==
    IF h = HashTwitter THEN "Twitter"
    ELSE IF h = HashGithub THEN "Github"
    ELSE IF h = HashLinkedin THEN "Linkedin"
    ELSE "Other"

\* the bundled table of supported platforms (src/local/supportedPlatforms.json)
PlatformTable ==
    << [name |-> "twitter", cTypeHash |-> HashTwitter, contentsKey |-> "Twitter",
        linkTemplate |-> <<"https://twitter.com/", Placeholder>>],
       [name |-> "github", cTypeHash |-> HashGithub, contentsKey |-> "Github",
        linkTemplate |-> <<"https://github.com/", Placeholder>>],
       [name |-> "linkedin", cTypeHash |-> HashLinkedin, contentsKey |-> "Linkedin",
        linkTemplate |-> <<"https://linkedin.com/in/", Placeholder>>] >>

(***************************************************************************)
(* Generic helpers for JavaScript array methods.                           *)
(***************************************************************************)
Range(s) == {s[i] : i \in 1..Len(s)}

\* Array.prototype.filter, as the increasing sequence of the indices kept
FilterIdx(kept) ==
    [k \in 1..Cardinality(kept) |->
        CHOOSE i \in kept : Cardinality({j \in kept : j < i}) = k - 1]

\* Array.prototype.find, as the first of the indices that satisfy the
\* predicate, 0 for undefined
FindIdx(satisfying) ==
    IF satisfying = {} THEN 0
    ELSE CHOOSE i \in satisfying : \A j \in satisfying : i <= j

\* the empty object {}
EmptyObject == [k \in {} |-> <<>>]

\* obj[key], undefined for a missing key
GetKey(obj, key) == IF key \in DOMAIN obj THEN obj[key] ELSE Undefined

\* obj[key] = value, keeping the other keys
SetKey(obj, key, value) == (key :> value) @@ obj

(***************************************************************************)
(* String operations.                                                      *)
(***************************************************************************)
\* String.prototype.split(','): the pieces between the commas; the empty
\* string splits into one empty piece
RECURSIVE Split(_)
Split(str) ==
    LET commaAt == FindIdx({i \in 1..Len(str) : str[i] = ","})
    IN  IF commaAt = 0 THEN <<str>>
        ELSE <<SubSeq(str, 1, commaAt - 1)>> \o Split(SubSeq(str, commaAt + 1, Len(str)))

\* the replacement string of String.prototype.replace, with its patterns
\* expanded: "$$" inserts one "$" (the usernames of the model hold none of
\* the other patterns $&, $`, $')
RECURSIVE ExpandReplacement(_)
ExpandReplacement(v) ==
    IF Len(v) = 0 THEN <<>>
    ELSE IF Len(v) >= 2 /\ v[1] = "$" /\ v[2] = "$"
         THEN <<"$">> \o ExpandReplacement(SubSeq(v, 3, Len(v)))
         ELSE <<v[1]>> \o ExpandReplacement(Tail(v))

\* linkTemplate.replace("CONTENTS_VALUE", value): the first occurrence of the
\* placeholder is replaced, a template without it is returned as it is
Replace(template, value) ==
    LET at == FindIdx({i \in 1..Len(template) : template[i] = Placeholder})
        text == ExpandReplacement(value)
    IN  IF at = 0 THEN template
        ELSE SubSeq(template, 1, at - 1) \o text \o SubSeq(template, at + 1, Len(template))

(***************************************************************************)
(* Credentials.  A published credential is a record                        *)
(*   cTypeHash  the schema identifier of the claim                         *)
(*   contents   the claim contents, a function from claim keys to texts    *)
(*   owner      the DID the claim is about                                 *)
(*   sigValid   whether Kilt.Credential.verifyCredential accepts it        *)
(*   revoked    the revocation status the chain reports for it             *)
(*   attester   the attester the chain reports for it                      *)
(***************************************************************************)
Envelope(hash, user, owner, sigValid, revoked, attester) ==
    [cTypeHash |-> hash, contents |-> (KeyOfHash(hash) :> user), owner |-> owner,
     sigValid |-> sigValid, revoked |-> revoked, attester |-> attester]

DidAlice == "did:kilt:alice"
DidMallory == "did:kilt:mallory"

\* the credentials an endpoint may publish: three that pass every check, one
\* for each check that fails, one of a schema that no platform has
Envelopes ==
    { Envelope(HashTwitter, UserA, DidAlice, TRUE, FALSE, AttesterB),
      Envelope(HashTwitter, UserB, DidAlice, TRUE, FALSE, AttesterB),
      Envelope(HashGithub, UserDollar, DidAlice, TRUE, FALSE, AttesterA),
      Envelope(HashTwitter, UserA, DidAlice, TRUE, TRUE, AttesterB),
      Envelope(HashTwitter, UserA, DidAlice, TRUE, FALSE, AttesterX),
      Envelope(HashGithub, UserA, DidMallory, TRUE, FALSE, AttesterA),
      Envelope(HashGithub, UserA, DidAlice, FALSE, FALSE, AttesterA),
      Envelope(HashLinkedin, UserA, DidAlice, TRUE, FALSE, AttesterA),
      Envelope(HashOther, UserA, DidAlice, TRUE, FALSE, AttesterA) }

\* the arrays of at most n distinct elements of S
Arrays(S, n) ==
    UNION { {c \in [1..k -> S] : \A i, j \in 1..k : c[i] = c[j] => i = j} : k \in 0..n }

\* an element of a fetched array that carries no well-formed credential
Malformed == [malformed |-> TRUE]

\* a parsed response body: an array of items, or something else
ArrayBody(items) == [isArray |-> TRUE, items |-> items]
NotArray == [isArray |-> FALSE, items |-> <<>>]

\* Array.isArray(json) && json.length > 0 && json.every(item => item &&
\* item.credential && isICredential(item.credential))
isPublishedCollection(json) ==
    /\ json.isArray
    /\ Len(json.items) > 0
    /\ \A i \in 1..Len(json.items) : json.items[i] # Malformed

(***************************************************************************)
(* verifyCredential of profiles.service.ts, after its two awaited calls.   *)
(***************************************************************************)
\* the message of the Error verifyCredential rethrows; a thrown string has
\* no message property, so its text is lost
ErrRevoked == "[verifyCredential] - One of the credentials has been revoked, hence it is not valid."
ErrUntrusted == "[verifyCredential] - undefined"
ErrSubject == "[verifyCredential] - Credential refers to a different subject than expected."
ErrSignature == "[verifyCredential] - Kilt.Credential.verifyCredential rejected"
ErrCType == "[verifyCredential] - Kilt.CType.fetchFromChain rejected"
Verified == "verified"

\* Kilt.Did.isSameSubject
isSameSubject(didA, didB) == didA = didB

\* verifyCredentialChecks without the check of the subject
verifyCredentialChecks_NoSubjectCheck(credential, trustedAttesterUris, didUri) ==
    IF credential.revoked THEN ErrRevoked
    ELSE IF credential.attester \notin Range(trustedAttesterUris) THEN ErrUntrusted
    ELSE Verified

\* verifyCredentialChecks with the check of the attester before the check of
\* the revocation
verifyCredentialChecks_AttesterFirst(credential, trustedAttesterUris, didUri) ==
    IF credential.attester \notin Range(trustedAttesterUris) THEN ErrUntrusted
    ELSE IF credential.revoked THEN ErrRevoked
    ELSE IF ~isSameSubject(credential.owner, didUri) THEN ErrSubject
    ELSE Verified

\* lines 123-137: the checks on the result {revoked, attester} of
\* Kilt.Credential.verifyCredential
verifyCredentialChecks(credential, trustedAttesterUris, didUri) ==
    IF credential.revoked THEN ErrRevoked
    ELSE IF credential.attester \notin Range(trustedAttesterUris) THEN ErrUntrusted
    ELSE IF ~isSameSubject(credential.owner, didUri) THEN ErrSubject
    ELSE Verified

(***************************************************************************)
(* extractProfile.                                                         *)
(***************************************************************************)
\* supportedPlatforms.find(({ cTypeHash }) => hash === cTypeHash), 0 if none
PlatformOfHash(platforms, hash) ==
    FindIdx({i \in 1..Len(platforms) : platforms[i].cTypeHash = hash})

\* the forEach of extractProfile over the first n credentials
RECURSIVE ExtractLinks(_, _, _)
ExtractLinks(platforms, credentialsV1, n) ==
    IF n = 0 THEN EmptyObject
    ELSE LET credential == credentialsV1[n]
             platform == platforms[PlatformOfHash(platforms, credential.cTypeHash)]
         IN  SetKey(ExtractLinks(platforms, credentialsV1, n - 1),
                    platform.name,
                    Replace(platform.linkTemplate,
                            GetKey(credential.contents, platform.contentsKey)))

\* extractProfile keeping the first link written for a platform: the forEach
\* taken from the last credential to the first
extractProfile_FirstWins(platforms, credentialsV1) ==
    LET reversed == [i \in 1..Len(credentialsV1) |-> credentialsV1[Len(credentialsV1) + 1 - i]]
    IN  [kind |-> "profile", links |-> ExtractLinks(platforms, reversed, Len(reversed))]

\* lines 183-193: the links of the credentials, one for each platform
extractProfile(platforms, credentialsV1) ==
    [kind |-> "profile", links |-> ExtractLinks(platforms, credentialsV1, Len(credentialsV1))]

(***************************************************************************)
(* Collaborators.                                                          *)
(***************************************************************************)
\* the web3names bound to a DID on the ledger
Web3NameBindings == ("alice" :> DidAlice)

\* ConfigService: the keys of the environment
ConfigUnset == EmptyObject
ConfigSet ==
    [TRUSTED_ATTESTER_URIS |-> AttesterA \o <<",">> \o AttesterB,
     TRUSTED_ATTESTER |-> AttesterB,
     TWITTER_CTYPE_ID |-> <<HashTwitter>>]

\* configService.get(key, defaultValue)
ConfigGet(cfg, key, defaultValue) == IF key \in DOMAIN cfg THEN cfg[key] ELSE defaultValue

\* service endpoints of a DID document
CollectionType == "KiltPublishedCredentialCollectionV1"
Service(type, uri) == [type |-> <<type>>, serviceEndpoint |-> <<uri>>]
Endpoint1 == Service(CollectionType, "ipfs://1")
Endpoint2 == Service(CollectionType, "ipfs://2")
OtherService == Service("LinkedDomains", "https://alice.example")

\* what Kilt.Did.resolve answers: null, a result without document, or a
\* document whose service list may be missing
ResolutionResults ==
    { [exists |-> FALSE, hasDocument |-> FALSE, hasService |-> FALSE, service |-> <<>>],
      [exists |-> TRUE, hasDocument |-> FALSE, hasService |-> FALSE, service |-> <<>>],
      [exists |-> TRUE, hasDocument |-> TRUE, hasService |-> FALSE, service |-> <<>>] }
    \cup { [exists |-> TRUE, hasDocument |-> TRUE, hasService |-> TRUE, service |-> sv] :
           sv \in { <<>>, <<OtherService>>, <<Endpoint1>>, <<OtherService, Endpoint1>>,
                    <<Endpoint1, Endpoint2>> } }

\* document.service?.filter(service => service.type.includes(CollectionType))
CredentialEndpoints(resolution) ==
    SelectSeq(resolution.service, LAMBDA sv : CollectionType \in Range(sv.type))

\* what an HTTP fetch answers
Response(ok, json) == [ok |-> ok, json |-> json]

\* the bodies an endpoint serves to getProfile
Bodies ==
    {NotArray, ArrayBody(<<Malformed>>)}
    \cup {ArrayBody(<<e, Malformed>>) : e \in Envelopes}
    \cup {ArrayBody(c) : c \in Arrays(Envelopes, MaxLen)}

\* the bodies an endpoint serves to verifyProfile
VariantBodies == {NotArray} \cup {ArrayBody(c) : c \in Arrays(Envelopes, MaxVariantLen)}

(***************************************************************************)
(* State.                                                                  *)
(***************************************************************************)
VARIABLES
    entry,              \* the service method the controller calls
    dto,                \* the request: web3Name, username, platformName
    config,             \* the environment of the process
    supportedPlatforms, \* the imported table of platforms
    pc,                 \* the await the request is suspended at
    didUri,             \* local didUri
    resolution,         \* local resolutionResult, what Kilt.Did.resolve answered
    endpoints,          \* local credentialEndpoints, once located
    responses,          \* the bodies received so far, by endpoint
    credentials,        \* local credentials
    matching,           \* local matchingCredential / credential, an index, 0 if unset
    primary,            \* the promise of the verifyCredential call of line 268
    tasks,              \* the promises verifySocialCredentials maps the credentials to
    result,             \* what the service method returned to the controller
    logged,             \* messages passed to logger.error
    calls,              \* collaborator calls made for the request
    fetched,            \* URIs passed to fetch
    processAlive,       \* FALSE once the process has exited
    world,              \* what the ledger and the endpoint hold, when it is fixed
    requestB            \* the locals of a second getProfile request, if there is one

vars == <<entry, dto, config, supportedPlatforms, pc, didUri, resolution, endpoints, responses,
          credentials, matching, primary, tasks, result, logged, calls, fetched,
          processAlive, world, requestB>>

inputs == <<entry, dto, config, supportedPlatforms, world>>

Pending == [kind |-> "pending"]
ReturnedUndefined == [kind |-> "undefined"]

NoResolution == [exists |-> FALSE, hasDocument |-> FALSE, hasService |-> FALSE, service |-> <<>>]

NoPromise == [stage |-> "none", error |-> ""]
PendingPromise == [stage |-> "pending", error |-> ""]

\* the collaborators answer each call as they may: no state of theirs is fixed
AnyWorld == [fixed |-> FALSE, resolution |-> NoResolution, body |-> NotArray]

\* no second request
NoRequest == [pc |-> "None"]

Requests ==
    [web3Name : {"", "alice", "ghost"},
     username : {<<>>, UserA},
     platformName : {"", "twitter", "github", "myspace"}]

Init ==
    /\ entry \in {"getProfile", "verifyProfile"}
    /\ dto \in Requests
    /\ config \in {ConfigUnset, ConfigSet}
    /\ supportedPlatforms \in {<<>>, PlatformTable}
    /\ pc = "ValidateInput"
    /\ didUri = ""
    /\ resolution = NoResolution
    /\ endpoints = <<>>
    /\ responses = EmptyObject
    /\ credentials = <<>>
    /\ matching = 0
    /\ primary = NoPromise
    /\ tasks = <<>>
    /\ result = Pending
    /\ logged = {}
    /\ calls = {}
    /\ fetched = {}
    /\ processAlive = TRUE
    /\ world = AnyWorld
    /\ requestB = NoRequest

\* the catch block of getProfile and of verifyProfile: the error is logged
\* and the method ends without a return value
CatchAndLog(message) ==
    /\ pc' = "Failed"
    /\ logged' = logged \cup {message}
    /\ result' = ReturnedUndefined

(***************************************************************************)
(* getProfile (src/src/profiles/profiles.service.ts).  One action for each *)
(* await of the method: the action takes the answer of the awaited call    *)
(* and runs the code up to the next await.                                 *)
(***************************************************************************)
ErrInvalidParameters == "Invalid parameters: web3Name, username, and platformName are required."
ErrNoTrustedAttesters == "No trusted attester URIs found"
ErrNoPlatformList == "No supported platform list found"
ErrPlatformNotSupported == "The provided platform is not supported."
ErrNoBinding == "[getDidUriByWeb3Name] - Option: unwrapping a None value."
ErrLedger == "[getDidUriByWeb3Name] - ledger call rejected"
ErrNoDidUri == "No DidUri found for the provided web3Name"
ErrResolve == "Kilt.Did.resolve rejected"
ErrDidNotExist == "The provided DID does not exist on the KILT blockchain."
ErrDidDeleted == "The requested DID has already been deleted."
ErrNoEndpoints == "No endpoints were found in the document"
ErrMultipleEndpoints == "Multiple endpoints were found in the document"
ErrFetchStatus == "[fetchCredentials] - Failed to fetch credentials. Status code"
ErrFetchNetwork == "[fetchCredentials] - fetch rejected"
ErrNotCollection == "[fetchCredentials] - Collection is not a valid KiltPublishedCredentialCollectionV1 type"
ErrNoMatch == "No matching credential found for platformName and username."

\* line 207: configService.get('TRUSTED_ATTESTER_URIS', '').split(',')
TrustedAttesterUris == Split(ConfigGet(config, "TRUSTED_ATTESTER_URIS", <<>>))

\* supportedPlatforms.find(({ name }) => name === platformName), 0 if none
PlatformOfName(platforms, name) ==
    FindIdx({i \in 1..Len(platforms) : platforms[i].name = name})

\* lines 202-221, the checks before the first await, for the parameters of
\* a request: the message of the Error thrown, "" if none is
ValidationErrorFor(profileDto) ==
    IF profileDto.web3Name = "" \/ profileDto.username = <<>> \/ profileDto.platformName = ""
    THEN ErrInvalidParameters
    ELSE IF Len(TrustedAttesterUris) = 0 THEN ErrNoTrustedAttesters
    ELSE IF Len(supportedPlatforms) = 0 THEN ErrNoPlatformList
    ELSE IF PlatformOfName(supportedPlatforms, profileDto.platformName) = 0
         THEN ErrPlatformNotSupported
    ELSE ""

ValidationError == ValidationErrorFor(dto)

\* lines 200-224: validation, then the call of getDidUriByWeb3Name
getProfile_ValidateInput ==
    /\ processAlive /\ entry = "getProfile" /\ pc = "ValidateInput"
    /\ IF ValidationError # ""
       THEN /\ CatchAndLog(ValidationError)
            /\ UNCHANGED calls
       ELSE /\ pc' = "ResolveIdentity"
            /\ calls' = calls \cup {"queryByWeb3Name"}
            /\ UNCHANGED <<logged, result>>
    /\ UNCHANGED <<inputs, requestB,
                   didUri, resolution, endpoints, responses, credentials, matching,
                   primary, tasks, fetched, processAlive>>

\* getDidUriByWeb3Name, lines 68-77: what the awaited call of line 224 yields
\* when the ledger call rejects (ledgerFails) or answers
getDidUriByWeb3Name(web3Name, ledgerFails) ==
    IF ledgerFails THEN [ok |-> FALSE, didUri |-> "", error |-> ErrLedger]
    ELSE IF web3Name \notin DOMAIN Web3NameBindings
         THEN [ok |-> FALSE, didUri |-> "", error |-> ErrNoBinding]
    ELSE [ok |-> TRUE, didUri |-> Web3NameBindings[web3Name], error |-> ""]

\* lines 224-230: the DID of the name, then the call of Kilt.Did.resolve
getProfile_ResolveIdentity ==
    /\ processAlive /\ entry = "getProfile" /\ pc = "ResolveIdentity"
    /\ \E ledgerFails \in BOOLEAN :
         LET answer == getDidUriByWeb3Name(dto.web3Name, ledgerFails)
         IN  IF ~answer.ok
             THEN /\ CatchAndLog(answer.error)
                  /\ UNCHANGED <<didUri, calls>>
             ELSE IF answer.didUri = ""
             THEN /\ CatchAndLog(ErrNoDidUri)
                  /\ UNCHANGED <<didUri, calls>>
             ELSE /\ didUri' = answer.didUri
                  /\ pc' = "ResolveDocument"
                  /\ calls' = calls \cup {"resolve"}
                  /\ UNCHANGED <<logged, result>>
    /\ UNCHANGED <<inputs, requestB,
                   resolution, endpoints, responses, credentials, matching, primary,
                   tasks, fetched, processAlive>>

\* what Kilt.Did.resolve may answer, and the bodies the endpoint may serve:
\* those the world holds when it is fixed, any otherwise
ResolveAnswers == IF world.fixed THEN {world.resolution} ELSE ResolutionResults
FetchAnswers == IF world.fixed THEN {world.body} ELSE Bodies

\* lines 230-254: the document of the DID, its endpoint, then the call of
\* fetchCredentials
getProfile_ResolveDocument ==
    /\ processAlive /\ entry = "getProfile" /\ pc = "ResolveDocument"
    /\ \/ /\ CatchAndLog(ErrResolve)
          /\ UNCHANGED <<resolution, endpoints, calls, fetched>>
       \/ \E resolutionResult \in ResolveAnswers :
            LET credentialEndpoints == CredentialEndpoints(resolutionResult)
            IN  /\ resolution' = resolutionResult
                /\ IF ~resolutionResult.exists
                   THEN /\ CatchAndLog(ErrDidNotExist)
                        /\ UNCHANGED <<endpoints, calls, fetched>>
                   ELSE IF ~resolutionResult.hasDocument
                   THEN /\ CatchAndLog(ErrDidDeleted)
                        /\ UNCHANGED <<endpoints, calls, fetched>>
                   ELSE IF ~resolutionResult.hasService \/ Len(credentialEndpoints) = 0
                   THEN /\ CatchAndLog(ErrNoEndpoints)
                        /\ UNCHANGED <<endpoints, calls, fetched>>
                   ELSE IF Len(credentialEndpoints) > 1
                   THEN /\ CatchAndLog(ErrMultipleEndpoints)
                        /\ UNCHANGED <<endpoints, calls, fetched>>
                   ELSE /\ endpoints' = credentialEndpoints
                        /\ pc' = "FetchCredentials"
                        /\ calls' = calls \cup {"fetch"}
                        /\ fetched' = fetched \cup {credentialEndpoints[1].serviceEndpoint[1]}
                        /\ UNCHANGED <<logged, result>>
    /\ UNCHANGED <<inputs, requestB, didUri, responses, credentials, matching, primary, tasks,
                   processAlive>>

\* fetchCredentials, lines 84-98: what the awaited call of line 254 yields for
\* the answer of fetch (networkFails: fetch itself rejects)
fetchCredentials(networkFails, response) ==
    IF networkFails THEN [ok |-> FALSE, collection |-> <<>>, error |-> ErrFetchNetwork]
    ELSE IF ~response.ok THEN [ok |-> FALSE, collection |-> <<>>, error |-> ErrFetchStatus]
    ELSE IF ~isPublishedCollection(response.json)
         THEN [ok |-> FALSE, collection |-> <<>>, error |-> ErrNotCollection]
    ELSE [ok |-> TRUE, collection |-> response.json.items, error |-> ""]

\* lines 259-262: credentials.find(...) for the platform and the username of
\* the request, as an index, 0 for undefined
MatchingCredential(platforms, collection, platformName, username) ==
    LET platform == platforms[PlatformOfName(platforms, platformName)]
    IN  FindIdx({i \in 1..Len(collection) :
            /\ collection[i].cTypeHash = platform.cTypeHash
            /\ platform.contentsKey \in DOMAIN collection[i].contents
            /\ collection[i].contents[platform.contentsKey] = username})

\* SocialCredentials with the schema of the requested platform only
SocialCredentials_RequestedOnly(platforms, collection) ==
    FilterIdx({i \in 1..Len(collection) :
        /\ PlatformOfHash(platforms, collection[i].cTypeHash) # 0
        /\ PlatformOfHash(platforms, collection[i].cTypeHash) =
               PlatformOfName(platforms, dto.platformName)})

\* lines 271-273: the indices of the credentials of a supported schema
SocialCredentials(platforms, collection) ==
    FilterIdx({i \in 1..Len(collection) : PlatformOfHash(platforms, collection[i].cTypeHash) # 0})

\* verifyCredential, lines 108-141: the value the promise settles with,
\* Verified or the message of the Error it rejects with
verifyCredential(credentialV1, trustedAttesterUris, subjectDid) ==
    IF credentialV1.cTypeHash \notin ChainCTypes THEN ErrCType
    ELSE IF ~credentialV1.sigValid THEN ErrSignature
    ELSE verifyCredentialChecks(credentialV1, trustedAttesterUris, subjectDid)

\* the collaborator calls one verifyCredential makes
verifyCredentialCalls(credentialV1) ==
    IF credentialV1.cTypeHash \notin ChainCTypes
    THEN {"fetchFromChain"}
    ELSE {"fetchFromChain", "verifyCredential"}

\* the settled promise of a verification with the given outcome
Settled(outcome) ==
    IF outcome = Verified THEN [stage |-> "fulfilled", error |-> ""]
    ELSE [stage |-> "rejected", error |-> outcome]

\* lines 156-167 of verifySocialCredentials: one promise for each credential;
\* the callback returns the promise of verifyCredential without awaiting it,
\* so its own promise settles as that one does
DispatchVerifications(socialCredentials) ==
    [i \in 1..Len(socialCredentials) |->
        [cred |-> socialCredentials[i], stage |-> "pending", error |-> ""]]

\* lines 254-276: the fetched collection, the matching credential, the
\* verification of line 268 started and not awaited, then the verifications
\* of verifySocialCredentials started
getProfile_FetchCredentials ==
    /\ processAlive /\ entry = "getProfile" /\ pc = "FetchCredentials"
    /\ \E networkFails \in BOOLEAN, ok \in BOOLEAN, json \in FetchAnswers \cup {NotArray} :
         LET answer == fetchCredentials(networkFails, Response(ok, json))
             found == MatchingCredential(supportedPlatforms, answer.collection,
                                         dto.platformName, dto.username)
         IN  /\ networkFails => (~ok /\ json = NotArray)
             /\ ~ok => json = NotArray
             /\ ok => json \in FetchAnswers
             /\ IF ~answer.ok
                THEN /\ CatchAndLog(answer.error)
                     /\ UNCHANGED <<credentials, matching, primary, tasks, calls>>
                ELSE IF found = 0
                THEN /\ CatchAndLog(ErrNoMatch)
                     /\ credentials' = answer.collection
                     /\ UNCHANGED <<matching, primary, tasks, calls>>
                ELSE /\ credentials' = answer.collection
                     /\ matching' = found
                     /\ primary' = PendingPromise
                     /\ tasks' = DispatchVerifications(
                                    SocialCredentials(supportedPlatforms, answer.collection))
                     /\ calls' = calls \cup {"fetchFromChain"}
                     /\ pc' = "VerifyCollection"
                     /\ UNCHANGED <<logged, result>>
             /\ responses' = IF networkFails THEN responses ELSE SetKey(responses, 1, json)
    /\ UNCHANGED <<inputs, requestB, didUri, resolution, endpoints, fetched, processAlive>>

\* the promise of line 268 settles.  Nothing awaits it and nothing handles
\* its rejection: a rejection is an unhandled rejection, on which the
\* runtime either exits the process or only warns
getProfile_PrimarySettles ==
    /\ processAlive /\ entry = "getProfile" /\ primary.stage = "pending"
    /\ LET credentialV1 == credentials[matching]
           outcome == verifyCredential(credentialV1, TrustedAttesterUris, didUri)
       IN  /\ primary' = Settled(outcome)
           /\ calls' = calls \cup verifyCredentialCalls(credentialV1)
           /\ IF outcome = Verified
              THEN UNCHANGED processAlive
              ELSE processAlive' \in BOOLEAN
    /\ UNCHANGED <<inputs, requestB,
                   pc, didUri, resolution, endpoints, responses, credentials, matching,
                   tasks, result, logged, fetched>>

\* one promise of verifySocialCredentials settles.  The two awaited calls of a
\* verifyCredential read and write nothing that another verification or the
\* request touches, so the call is taken in one step from start to settlement
verifySocialCredentials_Settles ==
    /\ processAlive /\ entry = "getProfile" /\ pc = "VerifyCollection"
    /\ \E i \in 1..Len(tasks) :
         LET credentialV1 == credentials[tasks[i].cred]
             outcome == verifyCredential(credentialV1, TrustedAttesterUris, didUri)
         IN  /\ tasks[i].stage = "pending"
             /\ tasks' = [tasks EXCEPT ![i] = [cred |-> tasks[i].cred] @@ Settled(outcome)]
             /\ calls' = calls \cup verifyCredentialCalls(credentialV1)
    /\ UNCHANGED <<inputs, requestB,
                   pc, didUri, resolution, endpoints, responses, credentials, matching,
                   primary, result, logged, fetched, processAlive>>

\* SuccessfulVerifications without the filter on the status of the promises
SuccessfulVerifications_Unfiltered(promises, collection) ==
    [i \in 1..Len(promises) |-> collection[promises[i].cred]]

\* lines 169-175: the values of the fulfilled promises, in the order of the
\* promises
SuccessfulVerifications(promises, collection) ==
    LET fulfilled == SelectSeq(promises, LAMBDA t : t.stage = "fulfilled")
    IN  [i \in 1..Len(fulfilled) |-> collection[fulfilled[i].cred]]

\* getProfile_ProjectProfile without the wait for every promise: the profile
\* is made of the verifications fulfilled so far
getProfile_ProjectProfile_NoBarrier ==
    /\ processAlive /\ entry = "getProfile" /\ pc = "VerifyCollection"
    /\ result' = extractProfile(supportedPlatforms,
                                SuccessfulVerifications(tasks, credentials))
    /\ pc' = "Done"
    /\ UNCHANGED <<inputs, requestB, didUri, resolution, endpoints, responses, credentials,
                   matching, primary, tasks, logged, calls, fetched, processAlive>>

\* getProfile_ProjectProfile with Promise.all in the place of
\* Promise.allSettled: the first rejection fails verifySocialCredentials
getProfile_ProjectProfile_PromiseAll ==
    /\ processAlive /\ entry = "getProfile" /\ pc = "VerifyCollection"
    /\ LET rejected == FindIdx({i \in 1..Len(tasks) : tasks[i].stage = "rejected"})
       IN  IF rejected # 0
           THEN CatchAndLog(tasks[rejected].error)
           ELSE /\ \A i \in 1..Len(tasks) : tasks[i].stage # "pending"
                /\ result' = extractProfile(supportedPlatforms,
                                            SuccessfulVerifications(tasks, credentials))
                /\ pc' = "Done"
                /\ UNCHANGED logged
    /\ UNCHANGED <<inputs, requestB,
                   didUri, resolution, endpoints, responses, credentials, matching,
                   primary, tasks, calls, fetched, processAlive>>

\* lines 169-175 and 276-295: Promise.allSettled resumes verifySocialCredentials
\* when every promise has settled, and getProfile returns the profile
getProfile_ProjectProfile ==
    /\ processAlive /\ entry = "getProfile" /\ pc = "VerifyCollection"
    /\ \A i \in 1..Len(tasks) : tasks[i].stage # "pending"
    /\ result' = extractProfile(supportedPlatforms,
                                SuccessfulVerifications(tasks, credentials))
    /\ pc' = "Done"
    /\ UNCHANGED <<inputs, requestB,
                   didUri, resolution, endpoints, responses, credentials, matching,
                   primary, tasks, logged, calls, fetched, processAlive>>

GetProfileNext ==
    \/ getProfile_ValidateInput
    \/ getProfile_ResolveIdentity
    \/ getProfile_ResolveDocument
    \/ getProfile_FetchCredentials
    \/ getProfile_PrimarySettles
    \/ verifySocialCredentials_Settles
    \/ getProfile_ProjectProfile

(***************************************************************************)
(* verifyProfile (src/unnamed/part_005), the method the controller of      *)
(* src/src/profiles/profiles.controller.ts calls.  The platform of its     *)
(* request is the field platformName of dto.                               *)
(***************************************************************************)
ErrVariantInvalid == "Invalid parameters: web3Name, username and platform are required."
ErrVariantNoBinding == "Option: unwrapping a None value."
ErrVariantLedger == "ledger call rejected"
ErrVariantNotExist == "The DID does not exist on the KILT blockchain."
ErrVariantDeleted == "The DID has already been deleted."
ErrVariantNoEndpoints == "No service endpoints found in the document"
ErrVariantFetchStatus == "Failed to fetch credentials. Status code"
ErrVariantFetchNetwork == "fetch rejected"
ErrVariantTypeError == "TypeError: Cannot read properties of undefined"
ErrVariantNoMatch == "No matching credential found for the provided username"
ErrVariantCType == "Kilt.CType.fetchFromChain rejected"
ErrVariantSignature == "Kilt.Credential.verifyCredential rejected"
ErrVariantRevoked == "One of the credentials has been revoked, hence it is not valid."
ErrVariantSubject == "Credential refers to a different subject than expected."

\* lines 121-129: the profile verifyProfile returns
VariantProfile ==
    [kind |-> "profile",
     links |-> [email |-> <<"mailto:micha.roon@managination.com">>,
                website |-> <<"https://hashgraph-association.com">>,
                twitter |-> <<"https://twitter.com/drgorb">>,
                linkedin |-> <<"https://linkedin.com/in/micha">>,
                github |-> <<"https://github.com/drgorb">>]]

\* lines 64-71: the check of the parameters, then the call of
\* getDidUriByWeb3Name
verifyProfile_ValidateInput ==
    /\ processAlive /\ entry = "verifyProfile" /\ pc = "ValidateInput"
    /\ IF dto.web3Name = "" \/ dto.username = <<>> \/ dto.platformName = ""
       THEN /\ CatchAndLog(ErrVariantInvalid)
            /\ UNCHANGED calls
       ELSE /\ pc' = "ResolveIdentity"
            /\ calls' = calls \cup {"queryByWeb3Name"}
            /\ UNCHANGED <<logged, result>>
    /\ UNCHANGED <<inputs, requestB,
                   didUri, resolution, endpoints, responses, credentials, matching,
                   primary, tasks, fetched, processAlive>>

\* lines 27-36 and 71-73: the DID of the name, then the call of Kilt.Did.resolve
verifyProfile_ResolveIdentity ==
    /\ processAlive /\ entry = "verifyProfile" /\ pc = "ResolveIdentity"
    /\ \E ledgerFails \in BOOLEAN :
         IF ledgerFails
         THEN /\ CatchAndLog(ErrVariantLedger)
              /\ UNCHANGED <<didUri, calls>>
         ELSE IF dto.web3Name \notin DOMAIN Web3NameBindings
         THEN /\ CatchAndLog(ErrVariantNoBinding)
              /\ UNCHANGED <<didUri, calls>>
         ELSE /\ didUri' = Web3NameBindings[dto.web3Name]
              /\ pc' = "ResolveDocument"
              /\ calls' = calls \cup {"resolve"}
              /\ UNCHANGED <<logged, result>>
    /\ UNCHANGED <<inputs, requestB,
                   resolution, endpoints, responses, credentials, matching, primary,
                   tasks, fetched, processAlive>>

\* lines 73-100: the document of the DID, then one fetch for every endpoint
\* of the collection type
verifyProfile_ResolveDocument ==
    /\ processAlive /\ entry = "verifyProfile" /\ pc = "ResolveDocument"
    /\ \/ /\ CatchAndLog(ErrResolve)
          /\ UNCHANGED <<resolution, endpoints, calls, fetched>>
       \/ \E resolutionResult \in ResolutionResults :
            LET credentialEndpoints == CredentialEndpoints(resolutionResult)
            IN  /\ resolution' = resolutionResult
                /\ IF ~resolutionResult.exists
                   THEN /\ CatchAndLog(ErrVariantNotExist)
                        /\ UNCHANGED <<endpoints, calls, fetched>>
                   ELSE IF ~resolutionResult.hasDocument
                   THEN /\ CatchAndLog(ErrVariantDeleted)
                        /\ UNCHANGED <<endpoints, calls, fetched>>
                   ELSE IF ~resolutionResult.hasService \/ Len(credentialEndpoints) = 0
                   THEN /\ CatchAndLog(ErrVariantNoEndpoints)
                        /\ UNCHANGED <<endpoints, calls, fetched>>
                   ELSE /\ endpoints' = credentialEndpoints
                        /\ pc' = "FetchCredentials"
                        /\ calls' = calls \cup {"fetch"}
                        /\ fetched' = fetched \cup
                             {credentialEndpoints[i].serviceEndpoint[1] :
                                i \in 1..Len(credentialEndpoints)}
                        /\ UNCHANGED <<logged, result>>
    /\ UNCHANGED <<inputs, requestB, didUri, responses, credentials, matching, primary, tasks,
                   processAlive>>

\* (await Promise.all(credentialPromises)).flat(), line 101: the elements of
\* the bodies in the order of the endpoints; a body that is no array stays
\* one element
RECURSIVE Flat(_, _)
Flat(bodies, n) ==
    IF n = 0 THEN <<>>
    ELSE Flat(bodies, n - 1) \o
         (IF bodies[n].isArray THEN bodies[n].items ELSE <<Malformed>>)

\* credential.claim.contents.Twitter of an element that has a credential
TwitterOf(item) ==
    IF item = Malformed THEN Undefined ELSE GetKey(item.contents, "Twitter")

\* line 106: credentials.find(({ credential }) =>
\* credential.claim.contents.Twitter === username), 0 for undefined
VariantMatchingCredential(collection, username) ==
    FindIdx({i \in 1..Len(collection) : TwitterOf(collection[i]) = username})

\* the find of line 106 throws a TypeError on an element without credential
\* that it reaches before a match
VariantFindThrows(collection, username) ==
    \E i \in 1..Len(collection) :
        /\ collection[i] = Malformed
        /\ \A j \in 1..(i - 1) : TwitterOf(collection[j]) # username

\* lines 94-113: the answer of one of the fetches.  Promise.all rejects with
\* the first failure; with the last body it resumes verifyProfile, which
\* searches the credential and calls Kilt.CType.fetchFromChain
verifyProfile_FetchCredentials ==
    /\ processAlive /\ entry = "verifyProfile" /\ pc = "FetchCredentials"
    /\ \E i \in (1..Len(endpoints)) \ DOMAIN responses,
          networkFails \in BOOLEAN, ok \in BOOLEAN, json \in VariantBodies :
         LET bodies == SetKey(responses, i, json)
             collection == Flat(bodies, Len(endpoints))
             found == VariantMatchingCredential(collection, dto.username)
         IN  /\ networkFails => (~ok /\ json = NotArray)
             /\ ~ok => json = NotArray
             /\ IF networkFails
                THEN /\ CatchAndLog(ErrVariantFetchNetwork)
                     /\ UNCHANGED <<responses, credentials, matching, calls>>
                ELSE IF ~ok
                THEN /\ CatchAndLog(ErrVariantFetchStatus)
                     /\ UNCHANGED <<responses, credentials, matching, calls>>
                ELSE IF DOMAIN bodies # 1..Len(endpoints)
                THEN /\ responses' = bodies
                     /\ UNCHANGED <<pc, logged, result, credentials, matching, calls>>
                ELSE IF VariantFindThrows(collection, dto.username)
                THEN /\ CatchAndLog(ErrVariantTypeError)
                     /\ responses' = bodies
                     /\ credentials' = collection
                     /\ UNCHANGED <<matching, calls>>
                ELSE IF found = 0
                THEN /\ CatchAndLog(ErrVariantNoMatch)
                     /\ responses' = bodies
                     /\ credentials' = collection
                     /\ UNCHANGED <<matching, calls>>
                ELSE /\ responses' = bodies
                     /\ credentials' = collection
                     /\ matching' = found
                     /\ calls' = calls \cup {"fetchFromChain"}
                     /\ pc' = "FetchCType"
                     /\ UNCHANGED <<logged, result>>
    /\ UNCHANGED <<inputs, requestB,
                   didUri, resolution, endpoints, primary, tasks, fetched, processAlive>>

\* lines 112-119: the schema of TWITTER_CTYPE_ID from the chain, then the
\* call of verifyCredential, which calls Kilt.Credential.verifyCredential
verifyProfile_FetchCType ==
    /\ processAlive /\ entry = "verifyProfile" /\ pc = "FetchCType"
    /\ LET cTypeId == ConfigGet(config, "TWITTER_CTYPE_ID", Undefined)
       IN  IF cTypeId[1] \notin ChainCTypes
           THEN /\ CatchAndLog(ErrVariantCType)
                /\ UNCHANGED calls
           ELSE /\ pc' = "VerifyCredential"
                /\ calls' = calls \cup {"verifyCredential"}
                /\ UNCHANGED <<logged, result>>
    /\ UNCHANGED <<inputs, requestB,
                   didUri, resolution, endpoints, responses, credentials, matching,
                   primary, tasks, fetched, processAlive>>

\* verifyCredential of part_005, lines 38-62, for the schema ctype: Verified
\* or the message of what it throws (a thrown string has no message)
variantVerifyCredential(credential, trustedAttesterUris, ctype, subjectDid) ==
    IF ~credential.sigValid \/ credential.cTypeHash # ctype THEN ErrVariantSignature
    ELSE IF credential.revoked THEN ErrVariantRevoked
    ELSE IF credential.attester \notin Range(trustedAttesterUris) THEN "undefined"
    ELSE IF ~isSameSubject(credential.owner, subjectDid) THEN ErrVariantSubject
    ELSE Verified

\* lines 116-129: the verification of the credential, then the profile
verifyProfile_VerifyCredential ==
    /\ processAlive /\ entry = "verifyProfile" /\ pc = "VerifyCredential"
    /\ LET cTypeId == ConfigGet(config, "TWITTER_CTYPE_ID", Undefined)
           trustedAttesterUris == <<ConfigGet(config, "TRUSTED_ATTESTER", Undefined)>>
           outcome == variantVerifyCredential(credentials[matching], trustedAttesterUris,
                                              cTypeId[1], didUri)
       IN  IF outcome # Verified
           THEN CatchAndLog(outcome)
           ELSE /\ result' = VariantProfile
                /\ pc' = "Done"
                /\ UNCHANGED logged
    /\ UNCHANGED <<inputs, requestB,
                   didUri, resolution, endpoints, responses, credentials, matching,
                   primary, tasks, calls, fetched, processAlive>>

VerifyProfileNext ==
    \/ verifyProfile_ValidateInput
    \/ verifyProfile_ResolveIdentity
    \/ verifyProfile_ResolveDocument
    \/ verifyProfile_FetchCredentials
    \/ verifyProfile_FetchCType
    \/ verifyProfile_VerifyCredential

Next == GetProfileNext \/ VerifyProfileNext

Spec == Init /\ [][Next]_vars

(***************************************************************************)
(* Two getProfile requests in the same process, against the same ledger    *)
(* and the same endpoint.  The first keeps its locals in the variables of  *)
(* getProfile above, the second in the fields of requestB; its actions are *)
(* those of getProfile on these fields.  The service has no field that a   *)
(* request writes (lines 13-23); the process is what the two share.        *)
(***************************************************************************)
MaxPairLen == 2

\* the credentials the endpoint of the two requests may publish
PairEnvelopes ==
    { Envelope(HashTwitter, UserA, DidAlice, TRUE, FALSE, AttesterB),
      Envelope(HashTwitter, UserB, DidAlice, TRUE, FALSE, AttesterB),
      Envelope(HashGithub, UserDollar, DidAlice, TRUE, FALSE, AttesterA),
      Envelope(HashTwitter, UserA, DidAlice, TRUE, FALSE, AttesterX),
      Envelope(HashGithub, UserA, DidMallory, TRUE, FALSE, AttesterA) }

PairRequests ==
    { [web3Name |-> "alice", username |-> UserA, platformName |-> "twitter"],
      [web3Name |-> "alice", username |-> UserDollar, platformName |-> "github"] }

\* the locals of a getProfile request that has just been called
NewRequest(profileDto) ==
    [dto |-> profileDto, pc |-> "ValidateInput", didUri |-> "", credentials |-> <<>>,
     matching |-> 0, primary |-> NoPromise, tasks |-> <<>>, result |-> Pending,
     logged |-> {}, calls |-> {}, fetched |-> {}]

InitPair ==
    /\ entry = "getProfile"
    /\ dto \in PairRequests
    /\ config = ConfigSet
    /\ supportedPlatforms = PlatformTable
    /\ pc = "ValidateInput"
    /\ didUri = ""
    /\ resolution = NoResolution
    /\ endpoints = <<>>
    /\ responses = EmptyObject
    /\ credentials = <<>>
    /\ matching = 0
    /\ primary = NoPromise
    /\ tasks = <<>>
    /\ result = Pending
    /\ logged = {}
    /\ calls = {}
    /\ fetched = {}
    /\ processAlive = TRUE
    /\ world \in [fixed : {TRUE},
                  resolution : {[exists |-> TRUE, hasDocument |-> TRUE, hasService |-> TRUE,
                                 service |-> <<OtherService, Endpoint1>>]},
                  body : {ArrayBody(c) : c \in Arrays(PairEnvelopes, MaxPairLen)}]
    /\ requestB \in {NewRequest(profileDto) : profileDto \in PairRequests}

\* the catch block of getProfile, for the second request
CatchAndLogB(message) ==
    [requestB EXCEPT !.pc = "Failed", !.logged = @ \cup {message}, !.result = ReturnedUndefined]

\* the variables of the first request
firstRequest == <<pc, didUri, resolution, endpoints, responses, credentials, matching, primary,
                  tasks, result, logged, calls, fetched>>

\* lines 200-224: validation, then the call of getDidUriByWeb3Name
getProfileB_ValidateInput ==
    /\ processAlive /\ requestB.pc = "ValidateInput"
    /\ requestB' =
          IF ValidationErrorFor(requestB.dto) # ""
          THEN CatchAndLogB(ValidationErrorFor(requestB.dto))
          ELSE [requestB EXCEPT !.pc = "ResolveIdentity", !.calls = @ \cup {"queryByWeb3Name"}]
    /\ UNCHANGED <<inputs, firstRequest, processAlive>>

\* lines 224-230: the DID of the name, then the call of Kilt.Did.resolve
getProfileB_ResolveIdentity ==
    /\ processAlive /\ requestB.pc = "ResolveIdentity"
    /\ \E ledgerFails \in BOOLEAN :
         LET answer == getDidUriByWeb3Name(requestB.dto.web3Name, ledgerFails)
         IN  requestB' =
                 IF ~answer.ok THEN CatchAndLogB(answer.error)
                 ELSE IF answer.didUri = "" THEN CatchAndLogB(ErrNoDidUri)
                 ELSE [requestB EXCEPT !.didUri = answer.didUri, !.pc = "ResolveDocument",
                                       !.calls = @ \cup {"resolve"}]
    /\ UNCHANGED <<inputs, firstRequest, processAlive>>

\* lines 230-254: the document of the DID, its endpoint, then the call of
\* fetchCredentials
getProfileB_ResolveDocument ==
    /\ processAlive /\ requestB.pc = "ResolveDocument"
    /\ \/ requestB' = CatchAndLogB(ErrResolve)
       \/ \E resolutionResult \in ResolveAnswers :
            LET credentialEndpoints == CredentialEndpoints(resolutionResult)
            IN  requestB' =
                    IF ~resolutionResult.exists THEN CatchAndLogB(ErrDidNotExist)
                    ELSE IF ~resolutionResult.hasDocument THEN CatchAndLogB(ErrDidDeleted)
                    ELSE IF ~resolutionResult.hasService \/ Len(credentialEndpoints) = 0
                    THEN CatchAndLogB(ErrNoEndpoints)
                    ELSE IF Len(credentialEndpoints) > 1 THEN CatchAndLogB(ErrMultipleEndpoints)
                    ELSE [requestB EXCEPT
                            !.pc = "FetchCredentials",
                            !.calls = @ \cup {"fetch"},
                            !.fetched = @ \cup {credentialEndpoints[1].serviceEndpoint[1]}]
    /\ UNCHANGED <<inputs, firstRequest, processAlive>>

\* lines 254-276: the fetched collection, the matching credential, the
\* verification of line 268 started and not awaited, then the verifications
\* of verifySocialCredentials started
getProfileB_FetchCredentials ==
    /\ processAlive /\ requestB.pc = "FetchCredentials"
    /\ \E networkFails \in BOOLEAN, ok \in BOOLEAN, json \in FetchAnswers \cup {NotArray} :
         LET answer == fetchCredentials(networkFails, Response(ok, json))
             found == MatchingCredential(supportedPlatforms, answer.collection,
                                         requestB.dto.platformName, requestB.dto.username)
         IN  /\ networkFails => (~ok /\ json = NotArray)
             /\ ~ok => json = NotArray
             /\ ok => json \in FetchAnswers
             /\ requestB' =
                    IF ~answer.ok THEN CatchAndLogB(answer.error)
                    ELSE IF found = 0
                    THEN [CatchAndLogB(ErrNoMatch) EXCEPT !.credentials = answer.collection]
                    ELSE [requestB EXCEPT
                            !.credentials = answer.collection,
                            !.matching = found,
                            !.primary = PendingPromise,
                            !.tasks = DispatchVerifications(
                                          SocialCredentials(supportedPlatforms,
                                                            answer.collection)),
                            !.calls = @ \cup {"fetchFromChain"},
                            !.pc = "VerifyCollection"]
    /\ UNCHANGED <<inputs, firstRequest, processAlive>>

\* the promise of line 268 settles; its rejection is an unhandled rejection
\* of the process the two requests run in
getProfileB_PrimarySettles ==
    /\ processAlive /\ requestB.pc # "None" /\ requestB.primary.stage = "pending"
    /\ LET credentialV1 == requestB.credentials[requestB.matching]
           outcome == verifyCredential(credentialV1, TrustedAttesterUris, requestB.didUri)
       IN  /\ requestB' = [requestB EXCEPT
                             !.primary = Settled(outcome),
                             !.calls = @ \cup verifyCredentialCalls(credentialV1)]
           /\ IF outcome = Verified
              THEN UNCHANGED processAlive
              ELSE processAlive' \in BOOLEAN
    /\ UNCHANGED <<inputs, firstRequest>>

\* one promise of verifySocialCredentials settles
verifySocialCredentialsB_Settles ==
    /\ processAlive /\ requestB.pc = "VerifyCollection"
    /\ \E i \in 1..Len(requestB.tasks) :
         LET credentialV1 == requestB.credentials[requestB.tasks[i].cred]
             outcome == verifyCredential(credentialV1, TrustedAttesterUris, requestB.didUri)
         IN  /\ requestB.tasks[i].stage = "pending"
             /\ requestB' = [requestB EXCEPT
                               !.tasks[i] = [cred |-> requestB.tasks[i].cred] @@ Settled(outcome),
                               !.calls = @ \cup verifyCredentialCalls(credentialV1)]
    /\ UNCHANGED <<inputs, firstRequest, processAlive>>

\* lines 169-175 and 276-295: every promise has settled, getProfile returns
\* the profile
getProfileB_ProjectProfile ==
    /\ processAlive /\ requestB.pc = "VerifyCollection"
    /\ \A i \in 1..Len(requestB.tasks) : requestB.tasks[i].stage # "pending"
    /\ requestB' = [requestB EXCEPT
                      !.result = extractProfile(supportedPlatforms,
                                                SuccessfulVerifications(requestB.tasks,
                                                                        requestB.credentials)),
                      !.pc = "Done"]
    /\ UNCHANGED <<inputs, firstRequest, processAlive>>

GetProfileBNext ==
    \/ getProfileB_ValidateInput
    \/ getProfileB_ResolveIdentity
    \/ getProfileB_ResolveDocument
    \/ getProfileB_FetchCredentials
    \/ getProfileB_PrimarySettles
    \/ verifySocialCredentialsB_Settles
    \/ getProfileB_ProjectProfile

NextPair == GetProfileNext \/ GetProfileBNext

SpecPair == InitPair /\ [][NextPair]_vars

(***************************************************************************)
(* verifyCredential (profiles.service.ts, lines 108-141) taken alone, for  *)
(* every combination of the defects of a credential: one action for the    *)
(* start of the call and one for each of its two awaits.  The promise of   *)
(* the call is primary, the credential is credentials[matching].           *)
(***************************************************************************)
\* the credentials of every schema, owner, authenticity, revocation status
\* and attester
AllEnvelopes ==
    { Envelope(hash, UserA, owner, sigValid, revoked, attester) :
        hash \in {HashTwitter, HashGithub, HashLinkedin, HashOther},
        owner \in {DidAlice, DidMallory},
        sigValid \in BOOLEAN, revoked \in BOOLEAN,
        attester \in {AttesterA, AttesterB, AttesterX} }

InitVerify ==
    /\ entry = "verifyCredential"
    /\ dto = [web3Name |-> "alice", username |-> UserA, platformName |-> "twitter"]
    /\ config \in {ConfigUnset, ConfigSet}
    /\ supportedPlatforms = PlatformTable
    /\ pc = "Start"
    /\ didUri = DidAlice
    /\ resolution = NoResolution
    /\ endpoints = <<>>
    /\ responses = EmptyObject
    /\ credentials \in {<<e>> : e \in AllEnvelopes}
    /\ matching = 1
    /\ primary = NoPromise
    /\ tasks = <<>>
    /\ result = Pending
    /\ logged = {}
    /\ calls = {}
    /\ fetched = {}
    /\ processAlive = TRUE
    /\ world = AnyWorld
    /\ requestB = NoRequest

\* lines 114-118: the call runs to its first await, that of
\* Kilt.CType.fetchFromChain
verifyCredential_Start ==
    /\ processAlive /\ entry = "verifyCredential" /\ pc = "Start"
    /\ primary' = PendingPromise
    /\ calls' = calls \cup {"fetchFromChain"}
    /\ pc' = "FetchCType"
    /\ UNCHANGED <<inputs, requestB,
                   didUri, resolution, endpoints, responses, credentials, matching,
                   tasks, result, logged, fetched, processAlive>>

\* lines 118-121: fetchFromChain rejects, which the catch of line 138
\* rethrows, or answers the schema, with which
\* Kilt.Credential.verifyCredential is called
verifyCredential_FetchCType ==
    /\ processAlive /\ entry = "verifyCredential" /\ pc = "FetchCType"
    /\ IF credentials[matching].cTypeHash \notin ChainCTypes
       THEN /\ primary' = Settled(ErrCType)
            /\ pc' = "Settled"
            /\ UNCHANGED calls
       ELSE /\ pc' = "VerifyCredential"
            /\ calls' = calls \cup {"verifyCredential"}
            /\ UNCHANGED primary
    /\ UNCHANGED <<inputs, requestB,
                   didUri, resolution, endpoints, responses, credentials, matching,
                   tasks, result, logged, fetched, processAlive>>

\* lines 121-140: Kilt.Credential.verifyCredential rejects, or answers
\* {revoked, attester}, on which the three checks run
verifyCredential_Checks ==
    /\ processAlive /\ entry = "verifyCredential" /\ pc = "VerifyCredential"
    /\ primary' = IF ~credentials[matching].sigValid
                  THEN Settled(ErrSignature)
                  ELSE Settled(verifyCredentialChecks(credentials[matching],
                                                      TrustedAttesterUris, didUri))
    /\ pc' = "Settled"
    /\ UNCHANGED <<inputs, requestB,
                   didUri, resolution, endpoints, responses, credentials, matching,
                   tasks, result, logged, calls, fetched, processAlive>>

NextVerify ==
    \/ verifyCredential_Start
    \/ verifyCredential_FetchCType
    \/ verifyCredential_Checks

SpecVerify == InitVerify /\ [][NextVerify]_vars

(***************************************************************************)
(* Vocabulary of the properties.                                           *)
(***************************************************************************)
\* a link template with the text u in the place of every placeholder
Substitute(template, u) ==
    LET piece(i) == IF template[i] = Placeholder THEN u ELSE <<template[i]>>
        upTo[n \in 0..Len(template)] == IF n = 0 THEN <<>> ELSE upTo[n - 1] \o piece(n)
    IN  upTo[Len(template)]

\* the descriptor of the platform the request names
RequestedPlatform == PlatformTable[PlatformOfName(PlatformTable, dto.platformName)]

\* the envelope is of a schema registered on the chain, is authentic and not
\* revoked, its attester is in the trusted list and its owner is the DID
\* resolved for the request
PassesAllChecks(e) ==
    /\ e.cTypeHash \in ChainCTypes
    /\ e.sigValid
    /\ ~e.revoked
    /\ \E k \in 1..Len(TrustedAttesterUris) : TrustedAttesterUris[k] = e.attester
    /\ e.owner = didUri

\* the positions of the fetched collection that hold an envelope of the
\* schema of some supported platform
SupportedPositions ==
    {i \in 1..Len(credentials) :
        \E k \in 1..Len(supportedPlatforms) :
            supportedPlatforms[k].cTypeHash = credentials[i].cTypeHash}

FailingPositions == {i \in SupportedPositions : ~PassesAllChecks(credentials[i])}

\* getProfile has fetched a collection, found the matching envelope and
\* started the verifications of verifySocialCredentials
Dispatched == entry = "getProfile" /\ tasks # <<>>

\* the envelope at position i is of the requested platform and carries the
\* requested username
MatchesRequest(i) ==
    /\ PlatformOfName(PlatformTable, dto.platformName) # 0
    /\ credentials[i] # Malformed
    /\ credentials[i].cTypeHash = RequestedPlatform.cTypeHash
    /\ GetKey(credentials[i].contents, RequestedPlatform.contentsKey) = dto.username

\* the request has a field missing or names a platform of no descriptor
InvalidRequest ==
    \/ dto.web3Name = ""
    \/ dto.username = <<>>
    \/ dto.platformName = ""
    \/ PlatformOfName(PlatformTable, dto.platformName) = 0

(***************************************************************************)
(* Properties.                                                             *)
(***************************************************************************)
\* C1: when getProfile has returned and the fetched collection holds an
\* envelope of the requested platform p with the requested username u that
\* passes every check, the result is a profile whose entry for p is the link
\* template of p with u in the place of the placeholder.
C1_MatchedLinkReturned ==
    (entry = "getProfile" /\ pc = "Done") =>
        \A i \in 1..Len(credentials) :
            (MatchesRequest(i) /\ PassesAllChecks(credentials[i])) =>
                /\ result.kind = "profile"
                /\ RequestedPlatform.name \in DOMAIN result.links
                /\ result.links[RequestedPlatform.name] =
                       Substitute(RequestedPlatform.linkTemplate, dto.username)

\* C2: when the envelope matched for the request fails a check of
\* verifyCredential, getProfile returns no profile.
C2_FailedMatchReturnsNoProfile ==
    (entry = "getProfile" /\ matching # 0 /\ ~PassesAllChecks(credentials[matching])) =>
        result.kind # "profile"

\* C3: a request whose resolution, endpoint location, fetch or matching
\* failed, or whose matched envelope fails verification, ends with an error
\* thrown to the caller: the method does not complete normally.
C3_FailureReachesCaller ==
    /\ (pc = "Failed" /\ "queryByWeb3Name" \in calls) => result.kind = "rejected"
    /\ (/\ entry = "getProfile" /\ matching # 0 /\ result.kind # "pending"
        /\ ~PassesAllChecks(credentials[matching])) => result.kind = "rejected"

\* C4: every entry of a profile getProfile returns is the rendered link of an
\* envelope of the fetched collection that has the schema of the entry's
\* platform and passes every check (registered schema, authentic, not
\* revoked, trusted attester, owned by the resolved DID).
C4_EntriesFromVerifiedEnvelopes ==
    (entry = "getProfile" /\ result.kind = "profile") =>
        \A name \in DOMAIN result.links :
            \E i \in 1..Len(credentials), k \in 1..Len(supportedPlatforms) :
                /\ supportedPlatforms[k].name = name
                /\ credentials[i].cTypeHash = supportedPlatforms[k].cTypeHash
                /\ PassesAllChecks(credentials[i])
                /\ result.links[name] =
                       Replace(supportedPlatforms[k].linkTemplate,
                               GetKey(credentials[i].contents, supportedPlatforms[k].contentsKey))

\* C4 witness: a returned profile of two entries while an envelope of the
\* collection was rejected for its owner
C4_Witness ==
    /\ entry = "getProfile" /\ pc = "Done"
    /\ Cardinality(DOMAIN result.links) = 2
    /\ \E i \in 1..Len(tasks) :
          tasks[i].stage = "rejected" /\ credentials[tasks[i].cred].owner # didUri

C6_AmbiguousEndpointsNotFetched ==
    Len(CredentialEndpoints(resolution)) >= 2 => (pc = "Failed" /\ fetched = {})

\* C7: a request with an empty field or a platform of no descriptor fails
\* without any collaborator call.
C7_InvalidRequestMakesNoCall ==
    (InvalidRequest /\ pc # "ValidateInput") => (pc = "Failed" /\ calls = {})

\* C8: with TRUSTED_ATTESTER_URIS absent or empty, or with an empty platform
\* table, getProfile fails with the configuration error and goes no further.
C8_MissingConfigurationFails ==
    (/\ entry = "getProfile" /\ pc # "ValidateInput"
     /\ dto.web3Name # "" /\ dto.username # <<>> /\ dto.platformName # ""
     /\ \/ ConfigGet(config, "TRUSTED_ATTESTER_URIS", <<>>) = <<>>
        \/ supportedPlatforms = <<>>) =>
        /\ pc = "Failed"
        /\ logged \subseteq {ErrNoTrustedAttesters, ErrNoPlatformList}
        /\ calls = {}

\* C9: when the ledger has answered the lookup of a name that has no DID
\* binding, the request ends with a not-found error thrown to the caller,
\* and neither the document is resolved nor anything fetched.
C9_UnboundNameNotFound ==
    (/\ "queryByWeb3Name" \in calls /\ pc # "ResolveIdentity"
     /\ dto.web3Name \notin DOMAIN Web3NameBindings
     /\ logged \cap {ErrLedger, ErrVariantLedger} = {}) =>
        /\ result.kind = "rejected"
        /\ "resolve" \notin calls
        /\ fetched = {}

\* C10: when a collection has been fetched and none of its envelopes has both
\* the schema of the requested platform and the requested username, the
\* request fails and no credential verification is started.
C10_NoMatchStartsNoVerification ==
    (/\ pc \notin {"ValidateInput", "ResolveIdentity", "ResolveDocument", "FetchCredentials"}
     /\ \A i \in 1..Len(credentials) : ~MatchesRequest(i)) =>
        /\ pc = "Failed"
        /\ calls \cap {"fetchFromChain", "verifyCredential"} = {}

\* C12: when the endpoint has answered getProfile with a non-success status,
\* or with a body that is no array, an empty array or an array with an
\* element that has no well-formed credential, fetchCredentials has thrown
\* its error and the request has failed with it: the caller gets the error,
\* and no element of the payload is verified or projected.
C12_InvalidPayloadIsFatal ==
    (/\ entry = "getProfile"
     /\ \/ ErrFetchStatus \in logged
        \/ /\ 1 \in DOMAIN responses
           /\ \/ ~responses[1].isArray
              \/ responses[1].items = <<>>
              \/ \E i \in 1..Len(responses[1].items) : responses[1].items[i] = Malformed) =>
        /\ logged \cap {ErrFetchStatus, ErrNotCollection} # {}
        /\ pc = "Failed"
        /\ result.kind = "rejected"
        /\ credentials = <<>>
        /\ matching = 0 /\ primary = NoPromise /\ tasks = <<>>
        /\ calls \cap {"fetchFromChain", "verifyCredential"} = {}

\* C13: when the resolved document has no service endpoint of the collection
\* type, or no service list at all, getProfile fails with the not-found
\* error of the endpoints, which the caller gets, and nothing is fetched.
C13_NoEndpointNotFound ==
    (/\ entry = "getProfile"
     /\ resolution.exists /\ resolution.hasDocument
     /\ Len(CredentialEndpoints(resolution)) = 0) =>
        /\ pc = "Failed"
        /\ logged = {ErrNoEndpoints}
        /\ result.kind = "rejected"
        /\ fetched = {}
        /\ "fetch" \notin calls

\* C14: when Kilt.Did.resolve has answered with a result that has no
\* document, getProfile fails with the error of a deleted DID, which the
\* caller gets and can tell from the failure of a DID that does not exist;
\* the DID is not resolved again and no endpoint is located or fetched.
C14_DeletedDidIsTerminal ==
    (/\ entry = "getProfile"
     /\ resolution.exists /\ ~resolution.hasDocument) =>
        /\ pc = "Failed"
        /\ logged = {ErrDidDeleted}
        /\ ErrDidDeleted # ErrDidNotExist
        /\ result.kind = "rejected"
        /\ endpoints = <<>> /\ fetched = {}
        /\ "fetch" \notin calls

\* the steps of getProfile in their order, as the values pc takes; the
\* verification of the matched envelope is the promise primary
StepOrder ==
    <<"ValidateInput", "ResolveIdentity", "ResolveDocument", "FetchCredentials",
      "VerifyCollection", "Done">>

\* C15: getProfile goes through its steps in the fixed order, one step at a
\* time, or to Failed, which it never leaves; the verifications of the
\* collection are started, and the profile is projected, only when the
\* verification of the matched envelope has completed with success.
C15_StepsInOrder ==
    /\ [][(entry = "getProfile" /\ pc' # pc) =>
            \/ pc' = "Failed" /\ pc \notin {"Failed", "Done"}
            \/ \E k \in 1..(Len(StepOrder) - 1) : pc = StepOrder[k] /\ pc' = StepOrder[k + 1]]_vars
    /\ [](entry = "getProfile" =>
            /\ (tasks # <<>> \/ pc \in {"VerifyCollection", "Done"}) => primary.stage = "fulfilled"
            /\ pc = "Done" => result.kind = "profile")

\* C16: verifySocialCredentials starts one verification for every envelope
\* of a supported schema, in the order of the collection; the profile is
\* returned only when all of them have settled; each has then settled as its
\* own envelope decides, whatever the others did, every envelope that passes
\* is in the profile, and no failure fails the request.
C16_AllSettledBarrier ==
    Dispatched =>
        /\ Len(tasks) = Cardinality(SupportedPositions)
        /\ \A i \in 1..Len(tasks) :
              /\ tasks[i].cred \in SupportedPositions
              /\ \A j \in 1..(i - 1) : tasks[j].cred < tasks[i].cred
              /\ tasks[i].stage = "fulfilled" => PassesAllChecks(credentials[tasks[i].cred])
              /\ tasks[i].stage = "rejected" => ~PassesAllChecks(credentials[tasks[i].cred])
        /\ pc \in {"VerifyCollection", "Done"}
        /\ pc = "Done" =>
              /\ \A i \in 1..Len(tasks) : tasks[i].stage # "pending"
              /\ result.kind = "profile"
              /\ \A i \in SupportedPositions \ FailingPositions :
                    supportedPlatforms[PlatformOfHash(supportedPlatforms,
                                                      credentials[i].cTypeHash)].name
                        \in DOMAIN result.links

\* C16 witness: a profile returned with the link of an envelope that passes,
\* after an envelope was rejected for a thrown string and another for a
\* rejected collaborator call
C16_Witness ==
    /\ Dispatched /\ pc = "Done"
    /\ DOMAIN result.links # {}
    /\ \E i, j \in 1..Len(tasks) :
          /\ tasks[i].stage = "rejected" /\ tasks[i].error = ErrUntrusted
          /\ tasks[j].stage = "rejected" /\ tasks[j].error = ErrSignature

\* the checks of a verification in the order the specification gives them,
\* each with the failure it reports for the credential, "" if it passes
ChecksInOrder(e) ==
    << IF e.cTypeHash \notin ChainCTypes THEN ErrCType ELSE "",
       IF ~e.sigValid THEN ErrSignature ELSE IF e.revoked THEN ErrRevoked ELSE "",
       IF \A k \in 1..Len(TrustedAttesterUris) : TrustedAttesterUris[k] # e.attester
       THEN ErrUntrusted ELSE "",
       IF e.owner # didUri THEN ErrSubject ELSE "" >>

\* the position of the earliest check the credential fails, 0 if it passes all
EarliestFailing(e) == FindIdx({k \in 1..Len(ChecksInOrder(e)) : ChecksInOrder(e)[k] # ""})

\* C17: a call of verifyCredential that has settled has rejected with the
\* failure of the earliest check its credential fails, in the order schema
\* lookup, authenticity and revocation, attester, subject, or has fulfilled
\* when there is none; Kilt.Credential.verifyCredential is not called after a
\* failed schema lookup; the outcome and the calls are those the requests take
\* in one step.
C17_EarliestFailureReported ==
    (entry = "verifyCredential" /\ pc = "Settled") =>
        LET e == credentials[matching]
            first == EarliestFailing(e)
        IN  /\ first = 0 => primary = [stage |-> "fulfilled", error |-> ""]
            /\ first # 0 => primary = [stage |-> "rejected", error |-> ChecksInOrder(e)[first]]
            /\ "fetchFromChain" \in calls
            /\ "verifyCredential" \in calls <=> first # 1
            /\ primary = Settled(verifyCredential(e, TrustedAttesterUris, didUri))
            /\ calls = verifyCredentialCalls(e)

\* C17 witness: a credential that is revoked, of an untrusted attester and of
\* another subject has been rejected as revoked
C17_Witness ==
    /\ entry = "verifyCredential" /\ pc = "Settled"
    /\ credentials[matching].revoked
    /\ credentials[matching].attester = AttesterX
    /\ credentials[matching].owner = DidMallory
    /\ primary.error = ErrRevoked

\* C18: the verifications getProfile starts for the collection are those of
\* the envelopes whose schema is the schema of a supported platform, the
\* requested one or another, and of no other envelope; when the profile is
\* returned each of them has been verified, and the keys of the profile are
\* names of supported platforms that an envelope of the collection has the
\* schema of.
C18_SupportedSchemasOnly ==
    Dispatched =>
        /\ {tasks[i].cred : i \in 1..Len(tasks)} =
               {i \in 1..Len(credentials) :
                   credentials[i].cTypeHash \in
                       {PlatformTable[k].cTypeHash : k \in 1..Len(PlatformTable)}}
        /\ pc = "Done" =>
              /\ \A i \in 1..Len(tasks) : tasks[i].stage \in {"fulfilled", "rejected"}
              /\ \A name \in DOMAIN result.links :
                    \E k \in 1..Len(PlatformTable), i \in 1..Len(tasks) :
                        /\ PlatformTable[k].name = name
                        /\ credentials[tasks[i].cred].cTypeHash = PlatformTable[k].cTypeHash

\* C18 witness: a profile returned for a request of twitter with the link of
\* a github envelope, from a collection that also holds an envelope of a
\* schema of no platform
C18_Witness ==
    /\ Dispatched /\ pc = "Done"
    /\ dto.platformName = "twitter"
    /\ "github" \in DOMAIN result.links
    /\ \E i \in 1..Len(credentials) : credentials[i].cTypeHash = HashOther

\* the positions of the collection that hold an envelope of the schema of
\* the k-th platform that passes every check
PassingOf(k) ==
    {i \in 1..Len(credentials) :
        /\ credentials[i].cTypeHash = supportedPlatforms[k].cTypeHash
        /\ PassesAllChecks(credentials[i])}

\* C19: in the profile getProfile returns, the entry of a platform is the
\* link rendered from the last, in the order of the fetched collection, of
\* the envelopes of that platform's schema that pass verification, in
\* whatever order the verifications settled.
C19_LastOfCollectionWins ==
    (Dispatched /\ pc = "Done") =>
        \A k \in 1..Len(supportedPlatforms) :
            PassingOf(k) # {} =>
                LET last == CHOOSE i \in PassingOf(k) : \A j \in PassingOf(k) : j <= i
                IN  /\ supportedPlatforms[k].name \in DOMAIN result.links
                    /\ result.links[supportedPlatforms[k].name] =
                           Replace(supportedPlatforms[k].linkTemplate,
                                   GetKey(credentials[last].contents,
                                          supportedPlatforms[k].contentsKey))

\* C19 witness: two twitter envelopes that pass, the requested one first; the
\* profile has the link of the second
C19_Witness ==
    /\ Dispatched /\ pc = "Done"
    /\ Cardinality(PassingOf(1)) = 2
    /\ matching = 1
    /\ result.links["twitter"] = <<"https://twitter.com/", "b">>

\* C11: two getProfile requests with the same parameters, against the same
\* ledger and the same endpoint, that have both returned, have returned the
\* same: profiles of the same keys with the same values, in whatever order
\* the verifications of either settled.
C11_IdenticalRequestsSameProfile ==
    (/\ world.fixed /\ requestB.dto = dto
     /\ pc \in {"Done", "Failed"} /\ requestB.pc \in {"Done", "Failed"}
     /\ logged \cup requestB.logged \subseteq {ErrNoMatch, ErrNotCollection}) =>
        /\ result = requestB.result
        /\ result.kind = "profile" =>
              /\ DOMAIN result.links = DOMAIN requestB.result.links
              /\ \A name \in DOMAIN result.links :
                    result.links[name] = requestB.result.links[name]

\* C11 witness: both requests have returned a profile of one link from a
\* collection of two envelopes, one of which failed verification
C11_Witness ==
    /\ world.fixed /\ requestB.dto = dto
    /\ pc = "Done" /\ requestB.pc = "Done"
    /\ Len(credentials) = 2
    /\ Cardinality(DOMAIN result.links) = 1
    /\ \E i \in 1..Len(tasks) : tasks[i].stage = "rejected"
    /\ \E i \in 1..Len(requestB.tasks) : requestB.tasks[i].stage = "rejected"

\* the envelope passes every check of verifyCredential for the subject did
PassesFor(e, did) ==
    /\ e.cTypeHash \in ChainCTypes
    /\ e.sigValid
    /\ ~e.revoked
    /\ \E k \in 1..Len(TrustedAttesterUris) : TrustedAttesterUris[k] = e.attester
    /\ e.owner = did

\* the links of the profile a getProfile request for the name returns when
\* it runs alone against the fixed world: for each platform, the link of the
\* last envelope of its schema that passes
LinksAlone(web3Name) ==
    LET collection == world.body.items
        passing(k) == {i \in 1..Len(collection) :
                         /\ collection[i].cTypeHash = PlatformTable[k].cTypeHash
                         /\ PassesFor(collection[i], Web3NameBindings[web3Name])}
        last(k) == CHOOSE i \in passing(k) : \A j \in passing(k) : j <= i
        present == {k \in 1..Len(PlatformTable) : passing(k) # {}}
        index(name) == CHOOSE k \in present : PlatformTable[k].name = name
    IN  [name \in {PlatformTable[k].name : k \in present} |->
            Replace(PlatformTable[index(name)].linkTemplate,
                    GetKey(collection[last(index(name))].contents,
                           PlatformTable[index(name)].contentsKey))]

\* C20: with two getProfile requests in the process, each request ends as it
\* does alone: the profile it returns is the one it returns alone against
\* the same ledger and endpoint, and once it has made a call it is cut
\* short by the end of the process only when its own unawaited verification
\* has been rejected.
C20_RequestsDoNotInterfere ==
    world.fixed =>
        /\ result.kind = "profile" => result.links = LinksAlone(dto.web3Name)
        /\ requestB.result.kind = "profile" =>
              requestB.result.links = LinksAlone(requestB.dto.web3Name)
        /\ (~processAlive /\ calls # {} /\ pc \notin {"Done", "Failed"}) =>
              primary.stage = "rejected"
        /\ (~processAlive /\ requestB.calls # {} /\ requestB.pc \notin {"Done", "Failed"}) =>
              requestB.primary.stage = "rejected"

\* C21: when getProfile has returned, with a profile or after a failure,
\* every verification it started has settled, that of the matched envelope
\* and those of verifySocialCredentials, and a verification of the matched
\* envelope that is rejected is observed by the request: it returns no
\* profile and its catch has the error.
C21_NoVerificationOutlivesRequest ==
    (entry = "getProfile" /\ result.kind # "pending") =>
        /\ primary.stage # "pending"
        /\ \A i \in 1..Len(tasks) : tasks[i].stage # "pending"
        /\ primary.stage = "rejected" =>
              /\ result.kind # "profile"
              /\ primary.error \in logged

====
